---- MODULE Spec2Model ----
(***************************************************************************)
(* AD9081 MxFE clocking model (adijif/converters/ad9081.py).               *)
(*                                                                         *)
(* Three device models share one solver model object: the combined        *)
(* ad9081 ("rxtx") and the two sub-models its constructor builds, an       *)
(* ad9081_rx ("adc") and an ad9081_tx ("dac").  Each of the three is a     *)
(* device model in its own right and answers get_required_clocks().        *)
(*                                                                         *)
(* Frequencies are exact rationals <<p, q>> in units of 40 kHz, the        *)
(* greatest common divisor of the frequencies of the source.               *)
(***************************************************************************)
EXTENDS Integers, Sequences, FiniteSets, TLC

VARIABLES solver, clocking_option, decimation, interpolation, sample_clock,
          config, bound, equations, ncalls, result, trial, steps

vars == <<solver, clocking_option, decimation, interpolation, sample_clock,
          config, bound, equations, ncalls, result, trial, steps>>

(***************************************************************************)
(* Bounds of the model.                                                    *)
(***************************************************************************)
\* operations of one session (setting changes, calls)
MaxSteps == 3
\* get_required_clocks() calls before a solve, in SolveSpec
MaxBuilds == 1

(***************************************************************************)
(* Program constants, in units of 40 kHz.                                  *)
(***************************************************************************)
pfd_min == 625
pfd_max == 18750
vco_min == 150000
vco_max == 300000
rx_converter_clock_min == 36250
rx_converter_clock_max == 100000
tx_converter_clock_min == 72500
tx_converter_clock_max == 300000
\* JESD parameters of the multiframe clock
K == 32
S == 1

l_available == {1, 2, 3, 4}
m_vco_available == {5, 7, 8, 11}
n_vco_available == 2..50
r_available == {1, 2, 3, 4}
d_available == {1, 2, 3, 4}
lmfc_divisor_available == 1..20
clocking_option_available == {"integrated_pll", "direct"}

(***************************************************************************)
(* Inputs.                                                                 *)
(***************************************************************************)
Insts == {"adc", "dac", "rxtx"}
Solvers == {"gekko", "CPLEX", "other"}
\* the sample clocks <<adc, dac>> of the solved sessions: 122.88e6 and
\* 1.5e9 for the adc; 6e9 for the dac, and one unit below 6e9 and above 12e9
SolveClocks == {<<3072, 149999>>, <<37500, 150000>>, <<37500, 300001>>}
\* 1.5e9, 3e9, 7.5e9
SampleClocks == {37500, 75000, 187500}
Decimations == {1, 2}
Interpolations == {1, 2, 4}

Kind(i) == IF i = "adc" THEN "rx" ELSE IF i = "dac" THEN "tx" ELSE "rxtx"

(***************************************************************************)
(* Exact rational arithmetic.                                              *)
(***************************************************************************)
RECURSIVE GCD(_, _)
GCD(a, b) == IF b = 0 THEN a ELSE GCD(b, a % b)

\* of fractions in lowest terms, cancelling before multiplying
RMul(x, y) ==
    LET g1 == GCD(x[1], y[2])
        g2 == GCD(y[1], x[2])
    IN  <<(x[1] \div g1) * (y[1] \div g2), (x[2] \div g2) * (y[2] \div g1)>>
RDiv(x, y) == RMul(x, <<y[2], y[1]>>)
RLe(x, y) == x[1] * y[2] <= y[1] * x[2]
RInt(n) == <<n, 1>>

(***************************************************************************)
(* Solver objects: variables, constants and expressions.                   *)
(***************************************************************************)
Var(name, gen, dom) == <<"var", name, gen, dom>>
Num(n) == <<"num", n, 1>>
Mul(a, b) == <<"mul", a, b>>
Div(a, b) == <<"div", a, b>>
Intermediate(e) == <<"intermediate", e>>

\* _convert_input: a list becomes a solver variable over that domain,
\* a number a constant
convert_input_list(dom, name, gen) == Var(name, gen, dom)
convert_input_num(n) == Num(n)

\* _add_intermediate: an intermediate node under gekko, the plain
\* expression under CPLEX
add_intermediate(e) == IF solver = "gekko" THEN Intermediate(e) ELSE e

\* the value of an expression under an assignment of its variables
RECURSIVE Eval(_, _)
Eval(e, a) ==
    CASE e[1] = "var" -> RInt(a[e[2]])
      [] e[1] = "num" -> <<e[2], e[3]>>
      [] e[1] = "mul" -> RMul(Eval(e[2], a), Eval(e[3], a))
      [] e[1] = "div" -> RDiv(Eval(e[2], a), Eval(e[3], a))
      [] e[1] = "intermediate" -> Eval(e[2], a)

\* a registered relation <<op, lhs, rhs>> under an assignment
Holds(rel, a) ==
    IF rel[1] = ">=" THEN RLe(Eval(rel[3], a), Eval(rel[2], a))
    ELSE RLe(Eval(rel[2], a), Eval(rel[3], a))

(***************************************************************************)
(* Dictionaries.                                                           *)
(***************************************************************************)
EmptyDict == [x \in {} |-> 0]
Put(cfg, k, v) == [x \in (DOMAIN cfg) \cup {k} |-> IF x = k THEN v ELSE cfg[x]]

\* self.config: the instance attribute once bound, else the class attribute
Config(i) == IF bound[i] THEN config[i] ELSE config["class"]

\* multiframe_clock of a converter: sample_clock / S / K, a number
multiframe_clock(i) ==
    LET v == RDiv(RDiv(RInt(sample_clock[i]), RInt(S)), RInt(K))
    IN  <<"num", v[1], v[2]>>

(***************************************************************************)
(* _converter_clock_config: the source clocking relation of each variant.  *)
(* Each yields the config it leaves and the error it raises ("none").      *)
(***************************************************************************)
\* the divide ratio l left out of the converter clock
rx_converter_clock_config_no_l(cfg, g) ==
    LET adc_clk == decimation * sample_clock["adc"]
        c1 == Put(cfg, "l", convert_input_list(l_available, "l", g))
        c2 == Put(c1, "adc_clk", convert_input_num(adc_clk))
    IN  [cfg |-> Put(c2, "converter_clk", add_intermediate(c2["adc_clk"])),
         err |-> IF solver \in {"gekko", "CPLEX"} THEN "none" ELSE "UnknownSolver"]

rx_converter_clock_config(cfg, g) ==
    LET adc_clk == decimation * sample_clock["adc"]
        c1 == Put(cfg, "l", convert_input_list(l_available, "l", g))
        c2 == Put(c1, "adc_clk", convert_input_num(adc_clk))
    IN  IF solver = "gekko"
        THEN [cfg |-> Put(c2, "converter_clk",
                          Intermediate(Mul(c2["adc_clk"], c2["l"]))),
              err |-> "none"]
        ELSE IF solver = "CPLEX"
        THEN [cfg |-> Put(c2, "converter_clk", Mul(c2["adc_clk"], c2["l"])),
              err |-> "none"]
        ELSE [cfg |-> c2, err |-> "UnknownSolver"]

\* the TX relation with the CPLEX branch doubling dac_clk
tx_converter_clock_config_split(cfg, g) ==
    LET dac_clk == interpolation * sample_clock["dac"]
        c1 == Put(cfg, "dac_clk", convert_input_num(dac_clk))
    IN  IF solver = "gekko"
        THEN [cfg |-> Put(c1, "converter_clk", Intermediate(c1["dac_clk"])),
              err |-> "none"]
        ELSE IF solver = "CPLEX"
        THEN [cfg |-> Put(c1, "converter_clk", Mul(c1["dac_clk"], Num(2))),
              err |-> "none"]
        ELSE [cfg |-> c1, err |-> "UnknownSolver"]

tx_converter_clock_config(cfg, g) ==
    LET dac_clk == interpolation * sample_clock["dac"]
        c1 == Put(cfg, "dac_clk", convert_input_num(dac_clk))
    IN  IF solver = "gekko"
        THEN [cfg |-> Put(c1, "converter_clk", Intermediate(c1["dac_clk"])),
              err |-> "none"]
        ELSE IF solver = "CPLEX"
        THEN [cfg |-> Put(c1, "converter_clk", c1["dac_clk"]), err |-> "none"]
        ELSE [cfg |-> c1, err |-> "UnknownSolver"]

\* the membership test weakened to any whole ratio
RatioAllowed_whole(dac_clk, adc_clk) == dac_clk % adc_clk = 0

\* l = dac_clk / adc_clk must be a member of adc.l_available
RatioAllowed(dac_clk, adc_clk) ==
    RDiv(RInt(dac_clk), RInt(adc_clk)) \in {RInt(x) : x \in l_available}

rxtx_converter_clock_config(cfg, g) ==
    LET adc_clk == decimation * sample_clock["adc"]
        dac_clk == interpolation * sample_clock["dac"]
        c1 == Put(cfg, "dac_clk", convert_input_num(dac_clk))
        c2 == Put(c1, "adc_clk", convert_input_num(adc_clk))
    IN  IF ~RatioAllowed(dac_clk, adc_clk)
        THEN [cfg |-> cfg, err |-> "InvalidRatio"]
        ELSE IF solver = "gekko"
        THEN [cfg |-> Put(c2, "converter_clk", Intermediate(c2["dac_clk"])),
              err |-> "none"]
        ELSE IF solver = "CPLEX"
        THEN [cfg |-> Put(c2, "converter_clk", c2["dac_clk"]), err |-> "none"]
        ELSE [cfg |-> c2, err |-> "UnknownSolver"]

converter_clock_config(i, cfg, g) ==
    IF Kind(i) = "rx" THEN rx_converter_clock_config(cfg, g)
    ELSE IF Kind(i) = "tx" THEN tx_converter_clock_config(cfg, g)
    ELSE rxtx_converter_clock_config(cfg, g)

\* the class attributes converter_clock_min / converter_clock_max
converter_clock_min(i) ==
    IF Kind(i) = "tx" THEN tx_converter_clock_min ELSE rx_converter_clock_min
converter_clock_max(i) ==
    IF Kind(i) = "tx" THEN tx_converter_clock_max ELSE rx_converter_clock_max

(***************************************************************************)
(* _pll_config: the integrated PLL.                                        *)
(***************************************************************************)
\* the upper bound taken from the instance whatever rxtx says
pll_clock_max_own(i, rxtx) == converter_clock_max(i)

\* the bounds of the converter_clk range constraint
pll_clock_min(i, rxtx) ==
    IF ~rxtx THEN converter_clock_min(i) ELSE converter_clock_min("dac")
pll_clock_max(i, rxtx) ==
    IF ~rxtx THEN converter_clock_max(i) ELSE converter_clock_max("dac")

\* the reference divider applied on the wrong side
ref_clk_expr_swapped(c) ==
    Div(Mul(c["converter_clk"], c["d"]),
        Mul(Mul(c["m_vco"], c["n_vco"]), c["r"]))

ref_clk_expr(c) ==
    Div(Mul(Mul(c["converter_clk"], c["d"]), c["r"]),
        Mul(c["m_vco"], c["n_vco"]))

vco_expr(c) ==
    Div(Mul(Mul(c["ref_clk"], c["m_vco"]), c["n_vco"]), c["r"])

\* the lower bound taken as strict
vco_equations_strict(c) ==
    << <<">=", c["vco"], Num(vco_min + 1)>>,
       <<"<=", c["vco"], Num(vco_max)>> >>

vco_equations(c) ==
    << <<">=", c["vco"], Num(vco_min)>>,
       <<"<=", c["vco"], Num(vco_max)>> >>

pll_equations(i, c, rxtx) ==
    vco_equations(c) \o
    << <<"<=", Div(c["ref_clk"], c["r"]), Num(pfd_max)>>,
       <<">=", Div(c["ref_clk"], c["r"]), Num(pfd_min)>>,
       <<">=", c["converter_clk"], Num(pll_clock_min(i, rxtx))>>,
       <<"<=", c["converter_clk"], Num(pll_clock_max(i, rxtx))>> >>

pll_config(i, cfg, g, rxtx) ==
    LET cc == converter_clock_config(i, cfg, g)
        c1 == Put(cc.cfg, "m_vco", convert_input_list(m_vco_available, "m_vco", g))
        c2 == Put(c1, "n_vco", convert_input_list(n_vco_available, "n_vco", g))
        c3 == Put(c2, "r", convert_input_list(r_available, "r", g))
        c4 == Put(c3, "d", convert_input_list(d_available, "d", g))
        c5 == Put(c4, "ref_clk", add_intermediate(ref_clk_expr(c4)))
        c6 == Put(c5, "vco", add_intermediate(vco_expr(c5)))
    IN  IF cc.err # "none"
        THEN [cfg |-> cc.cfg, eqs |-> << >>, err |-> cc.err, ret |-> << >>]
        ELSE [cfg |-> c6, eqs |-> pll_equations(i, c6, rxtx), err |-> "none",
              ret |-> <<c6["ref_clk"]>>]

(***************************************************************************)
(* get_required_clocks.                                                    *)
(***************************************************************************)
\* get_required_clocks without the rebinding: writes go to whatever
\* self.config resolves to
keep_config(i) == [bound |-> bound[i], cfg |-> Config(i)]

\* the dictionary emptied in place, whichever one self.config resolves to
clear_config(i) == [bound |-> bound[i], cfg |-> EmptyDict]

\* self.config = {}: binds a fresh, empty instance dictionary
reset_config(i) == [bound |-> TRUE, cfg |-> EmptyDict]

\* a single-stage divider
sysref_expr_linear(mfc, divisor) == Div(mfc, divisor)

\* the device clocking branch never taken as direct
direct_clocking_ignored(i) == FALSE

\* if self.clocking_option == "direct"
direct_clocking(i) == clocking_option[i] = "direct"

sysref_expr(mfc, divisor) ==
    Div(mfc, Mul(divisor, divisor))

\* ad9081_core.get_required_clocks, of ad9081_rx and ad9081_tx
core_get_required_clocks(i, g) ==
    LET c0 == reset_config(i).cfg
        c1 == Put(c0, "lmfc_divisor_sysref",
                  convert_input_list(lmfc_divisor_available,
                                     "lmfc_divisor_sysref", g))
        sr == sysref_expr(multiframe_clock(i), c1["lmfc_divisor_sysref"])
        c2 == IF solver = "gekko" THEN Put(c1, "sysref", Intermediate(sr))
              ELSE IF solver = "CPLEX" THEN Put(c1, "sysref", sr)
              ELSE c1
        p  == pll_config(i, c2, g, FALSE)
    IN  IF direct_clocking(i)
        THEN [cfg |-> c2, eqs |-> << >>, err |-> "NotImplemented", ret |-> << >>]
        ELSE IF p.err # "none" THEN p
        ELSE [p EXCEPT !.ret = p.ret \o <<p.cfg["sysref"]>>]

\* ad9081.get_required_clocks, of the combined model
rxtx_get_required_clocks(i, g) ==
    LET c0 == reset_config(i).cfg
        c1 == Put(c0, "adc_lmfc_divisor_sysref",
                  convert_input_list(lmfc_divisor_available,
                                     "adc_lmfc_divisor_sysref", g))
        c2 == Put(c1, "dac_lmfc_divisor_sysref",
                  convert_input_list(lmfc_divisor_available,
                                     "dac_lmfc_divisor_sysref", g))
        sa == sysref_expr(multiframe_clock("adc"), c2["adc_lmfc_divisor_sysref"])
        sd == sysref_expr(multiframe_clock("dac"), c2["dac_lmfc_divisor_sysref"])
        c3 == IF solver = "gekko"
              THEN Put(Put(c2, "sysref_adc", Intermediate(sa)),
                       "sysref_dac", Intermediate(sd))
              ELSE Put(Put(c2, "sysref_adc", sa), "sysref_dac", sd)
        p  == pll_config(i, c3, g, TRUE)
    IN  IF solver \notin {"gekko", "CPLEX"}
        THEN [cfg |-> c2, eqs |-> << >>, err |-> "UnknownSolver", ret |-> << >>]
        ELSE IF direct_clocking(i)
        THEN [cfg |-> c3, eqs |-> << >>, err |-> "NotImplemented", ret |-> << >>]
        ELSE IF p.err # "none" THEN p
        ELSE [p EXCEPT !.ret = p.ret \o <<p.cfg["sysref_adc"], p.cfg["sysref_dac"]>>]

get_required_clocks(i, g) ==
    IF Kind(i) = "rxtx" THEN rxtx_get_required_clocks(i, g)
    ELSE core_get_required_clocks(i, g)

(***************************************************************************)
(* get_required_clock_names and get_config.                                *)
(***************************************************************************)
core_get_required_clock_names(i) ==
    << IF clocking_option[i] = "direct" THEN "ad9081_dac_clock"
       ELSE "ad9081_pll_ref",
       "ad9081_sysref" >>

rxtx_get_required_clock_names(i) ==
    << IF clocking_option["adc"] = "direct" THEN "ad9081_dac_clock"
       ELSE "ad9081_pll_ref",
       "ad9081_adc_sysref", "ad9081_dac_sysref" >>

get_required_clock_names(i) ==
    IF Kind(i) = "rxtx" THEN rxtx_get_required_clock_names(i)
    ELSE core_get_required_clock_names(i)

get_config(i) == [clocking_option |-> clocking_option[i]]

(***************************************************************************)
(* The state after construction.                                           *)
(***************************************************************************)
NoAssignment == [l |-> 0, m_vco |-> 0, n_vco |-> 0, r |-> 0, d |-> 0]
NoTrial == [inst |-> "none", a |-> NoAssignment, violated |-> {},
            accepted |-> FALSE,
            value |-> [converter_clk |-> RInt(0), ref_clk |-> RInt(0),
                       vco |-> RInt(0)]]
Outcome(op, i, outcome, value) ==
    [op |-> op, inst |-> i, outcome |-> outcome, value |-> value]

Constructed ==
    /\ clocking_option = [i \in Insts |-> "integrated_pll"]
    /\ decimation = 1
    /\ interpolation = 1
    /\ config = [i \in Insts \cup {"class"} |-> EmptyDict]
    /\ bound = [i \in Insts |-> FALSE]
    /\ equations = << >>
    /\ ncalls = 0
    /\ result = Outcome("init", "none", "ok", << >>)
    /\ trial = NoTrial
    /\ steps = 0

Init ==
    /\ solver \in Solvers
    /\ sample_clock \in [{"adc", "dac"} -> SampleClocks]
    /\ Constructed

(***************************************************************************)
(* Operations.                                                             *)
(***************************************************************************)
SetClockingOption(i, o) ==
    /\ steps < MaxSteps
    /\ o \in clocking_option_available
    /\ clocking_option' = [clocking_option EXCEPT ![i] = o]
    /\ result' = Outcome("set", i, "ok", << >>)
    /\ steps' = steps + 1
    /\ UNCHANGED <<solver, decimation, interpolation, sample_clock, config,
                   bound, equations, ncalls, trial>>

SetDecimation(v) ==
    /\ steps < MaxSteps
    /\ decimation' = v
    /\ result' = Outcome("set", "adc", "ok", << >>)
    /\ steps' = steps + 1
    /\ UNCHANGED <<solver, clocking_option, interpolation, sample_clock, config,
                   bound, equations, ncalls, trial>>

SetInterpolation(v) ==
    /\ steps < MaxSteps
    /\ interpolation' = v
    /\ result' = Outcome("set", "dac", "ok", << >>)
    /\ steps' = steps + 1
    /\ UNCHANGED <<solver, clocking_option, decimation, sample_clock, config,
                   bound, equations, ncalls, trial>>

SetSampleClock(i, v) ==
    /\ steps < MaxSteps
    /\ sample_clock' = [sample_clock EXCEPT ![i] = v]
    /\ result' = Outcome("set", i, "ok", << >>)
    /\ steps' = steps + 1
    /\ UNCHANGED <<solver, clocking_option, decimation, interpolation, config,
                   bound, equations, ncalls, trial>>

\* the registrations of one call, tagged with the call that made them
Registered(eqs, g) == [k \in 1..Len(eqs) |-> [gen |-> g, rel |-> eqs[k]]]

GetRequiredClocks(i) ==
    /\ steps < MaxSteps
    /\ LET g   == ncalls + 1
           out == get_required_clocks(i, g)
           own == reset_config(i).bound
       IN  /\ bound' = [bound EXCEPT ![i] = own]
           /\ config' = [config EXCEPT ![IF own THEN i ELSE "class"] = out.cfg]
           /\ equations' = equations \o Registered(out.eqs, g)
           /\ ncalls' = g
           /\ result' = Outcome("get_required_clocks", i,
                                IF out.err = "none" THEN "ok" ELSE out.err,
                                out.ret)
    /\ steps' = steps + 1
    /\ UNCHANGED <<solver, clocking_option, decimation, interpolation,
                   sample_clock, trial>>

GetRequiredClockNames(i) ==
    /\ steps < MaxSteps
    /\ result' = Outcome("get_required_clock_names", i, "ok",
                         get_required_clock_names(i))
    /\ steps' = steps + 1
    /\ UNCHANGED <<solver, clocking_option, decimation, interpolation,
                   sample_clock, config, bound, equations, ncalls, trial>>

GetConfig(i) ==
    /\ steps < MaxSteps
    /\ result' = Outcome("get_config", i, "ok", get_config(i))
    /\ steps' = steps + 1
    /\ UNCHANGED <<solver, clocking_option, decimation, interpolation,
                   sample_clock, config, bound, equations, ncalls, trial>>

Next ==
    \/ \E i \in Insts, o \in clocking_option_available : SetClockingOption(i, o)
    \/ \E v \in Decimations : SetDecimation(v)
    \/ \E v \in Interpolations : SetInterpolation(v)
    \/ \E i \in {"adc", "dac"}, v \in SampleClocks : SetSampleClock(i, v)
    \/ \E i \in Insts : GetRequiredClocks(i)
    \/ \E i \in Insts : GetRequiredClockNames(i)
    \/ \E i \in Insts : GetConfig(i)

Spec == Init /\ [][Next]_vars

(***************************************************************************)
(* The solve of the model one call has built: the backend tries an         *)
(* assignment of the PLL variables against the relations the latest call   *)
(* registered, and accepts or rejects it.                                  *)
(***************************************************************************)
DomainOf(cfg, k) == IF k \in DOMAIN cfg THEN cfg[k][4] ELSE {0}

\* the relations the latest call registered, by their place in the model
LatestRelations == {k \in 1..Len(equations) : equations[k].gen = ncalls}

\* those of them an assignment violates
Violated(a) == {k \in LatestRelations : ~Holds(equations[k].rel, a)}

Accepts(a) == \A k \in LatestRelations : Holds(equations[k].rel, a)

\* the read-back of the clock expressions under an assignment
ReadBack(cfg, a) ==
    [converter_clk |-> Eval(cfg["converter_clk"], a),
     ref_clk |-> Eval(cfg["ref_clk"], a),
     vco |-> Eval(cfg["vco"], a)]

TrySolution(i) ==
    /\ trial.inst = "none"
    /\ result.op = "get_required_clocks"
    /\ result.outcome = "ok"
    /\ result.inst = i
    /\ \E l \in DomainOf(Config(i), "l"), m \in DomainOf(Config(i), "m_vco"),
          n \in DomainOf(Config(i), "n_vco"), r \in DomainOf(Config(i), "r"),
          d \in DomainOf(Config(i), "d") :
          \E a \in {[l |-> l, m_vco |-> m, n_vco |-> n, r |-> r, d |-> d]} :
            \E v \in {Violated(a)} :
              trial' = [inst |-> i, a |-> a, violated |-> v,
                        accepted |-> v = {},
                        value |-> ReadBack(Config(i), a)]
    /\ UNCHANGED <<solver, clocking_option, decimation, interpolation,
                   sample_clock, config, bound, equations, ncalls, result, steps>>

InitSolve ==
    /\ solver \in Solvers
    /\ \E p \in SolveClocks : sample_clock = [adc |-> p[1], dac |-> p[2]]
    /\ Constructed

NextSolve ==
    \/ \E i \in Insts :
          /\ ncalls < MaxBuilds
          /\ trial.inst = "none"
          /\ GetRequiredClocks(i)
    \/ \E i \in Insts : TrySolution(i)

SolveSpec == InitSolve /\ [][NextSolve]_vars

(***************************************************************************)
(* The same device models under another backend tag: the solver attribute  *)
(* is assigned a new tag, every setting and everything built stays.        *)
(***************************************************************************)
Tags == {"gekko", "CPLEX"}
\* <<adc sample_clock, dac sample_clock>> the two tags are compared at
BackendClocks == {<<3072, 149999>>, <<37500, 150000>>}

SelectSolver(s) ==
    /\ s # solver
    /\ solver' = s
    /\ UNCHANGED <<clocking_option, decimation, interpolation, sample_clock,
                   config, bound, equations, ncalls, result, trial, steps>>

InitBackend ==
    /\ solver \in Tags
    /\ \E p \in BackendClocks : sample_clock = [adc |-> p[1], dac |-> p[2]]
    /\ Constructed

NextBackend ==
    \/ NextSolve
    \/ \E s \in Tags : SelectSolver(s)

BackendSpec == InitBackend /\ [][NextBackend]_vars

(***************************************************************************)
(* Properties.                                                             *)
(***************************************************************************)
Built == result.op = "get_required_clocks" /\ result.outcome = "ok"

PLLKeys == {"m_vco", "n_vco", "r", "d", "ref_clk", "vco"}
ClockKeys == {"l", "adc_clk", "dac_clk", "converter_clk"}

KeysBuilt(kind) ==
    IF kind = "rx"
    THEN {"lmfc_divisor_sysref", "sysref", "l", "adc_clk", "converter_clk"}
         \cup PLLKeys
    ELSE IF kind = "tx"
    THEN {"lmfc_divisor_sysref", "sysref", "dac_clk", "converter_clk"}
         \cup PLLKeys
    ELSE {"adc_lmfc_divisor_sysref", "dac_lmfc_divisor_sysref", "sysref_adc",
          "sysref_dac", "dac_clk", "adc_clk", "converter_clk"} \cup PLLKeys

\* the calls that created the solver variables an expression is built from
RECURSIVE Gens(_)
Gens(e) ==
    CASE e[1] = "var" -> {e[3]}
      [] e[1] = "num" -> {}
      [] e[1] = "mul" -> Gens(e[2]) \cup Gens(e[3])
      [] e[1] = "div" -> Gens(e[2]) \cup Gens(e[3])
      [] e[1] = "intermediate" -> Gens(e[2])

\* C1: the config namespace a successful get_required_clocks() leaves holds
\* exactly the entries that call built: the key set of the variant, every
\* entry made of the solver variables of that call, none of an earlier one.
C1_ConfigRebuilt ==
    Built =>
        LET c == Config(result.inst)
        IN  /\ bound[result.inst]
            /\ DOMAIN c = KeysBuilt(Kind(result.inst))
            /\ \A k \in DOMAIN c : Gens(c[k]) \subseteq {ncalls}

C1_Witness ==
    /\ Built
    /\ result.inst = "rxtx"
    /\ ncalls = 2
    /\ bound["adc"]
    /\ "l" \in DOMAIN config["adc"]

\* C2: the names get_required_clock_names() gives match, one for one and
\* in order, the clocks a successful get_required_clocks() returned: the
\* first is "ad9081_pll_ref" exactly when the first clock is the PLL
\* reference, then one sysref name per sysref returned.
C2_NamesMatchClocks ==
    Built =>
        LET i == result.inst
            names == get_required_clock_names(i)
            clocks == result.value
        IN  /\ Len(names) = Len(clocks)
            /\ (names[1] = "ad9081_pll_ref") <=> (clocks[1] = Config(i)["ref_clk"])
            /\ Kind(i) # "rxtx" =>
                   /\ names[2] = "ad9081_sysref"
                   /\ clocks[2] = Config(i)["sysref"]
            /\ Kind(i) = "rxtx" =>
                   /\ names[2] = "ad9081_adc_sysref"
                   /\ clocks[2] = Config(i)["sysref_adc"]
                   /\ names[3] = "ad9081_dac_sysref"
                   /\ clocks[3] = Config(i)["sysref_dac"]

\* C3: with clocking_option "direct", get_required_clocks() ends in an
\* error and the integrated PLL is never configured: the config holds no
\* clock or PLL entry and the call registered no relation.
C3_DirectFails ==
    (result.op = "get_required_clocks" /\ clocking_option[result.inst] = "direct")
    =>  /\ result.outcome \in {"NotImplemented", "UnknownSolver"}
        /\ result.value = << >>
        /\ DOMAIN Config(result.inst) \cap (PLLKeys \cup ClockKeys) = {}
        /\ LatestRelations = {}

C3_Witness ==
    /\ result.op = "get_required_clocks"
    /\ result.inst = "rxtx"
    /\ clocking_option["rxtx"] = "direct"
    /\ result.outcome = "NotImplemented"
    /\ ncalls = 2
    /\ Len(equations) > 0

\* C4: in the combined model under integrated-PLL clocking, the call fails
\* with the ratio error exactly when interpolation x dac sample_clock is
\* not 1, 2, 3 or 4 times decimation x adc sample_clock, and then no
\* relation was registered and no solve was started.
C4_RatioChecked ==
    (/\ result.op = "get_required_clocks"
     /\ result.inst = "rxtx"
     /\ clocking_option["rxtx"] = "integrated_pll"
     /\ solver \in {"gekko", "CPLEX"})
    =>  LET adc_clk == decimation * sample_clock["adc"]
            dac_clk == interpolation * sample_clock["dac"]
            ok == \E x \in 1..4 : dac_clk = x * adc_clk
        IN  /\ (result.outcome = "InvalidRatio") <=> ~ok
            /\ ok => result.outcome = "ok"
            /\ ~ok => /\ LatestRelations = {}
                       /\ trial = NoTrial
                       /\ "converter_clk" \notin DOMAIN Config("rxtx")

C4_Witness ==
    /\ result.op = "get_required_clocks"
    /\ result.inst = "rxtx"
    /\ result.outcome = "InvalidRatio"
    /\ interpolation * sample_clock["dac"] = 5 * decimation * sample_clock["adc"]

\* C5: get_config() on a model no solve has solved fails with a not-solved
\* error.
C5_GetConfigNeedsSolve ==
    (result.op = "get_config" /\ ~trial.accepted)
    => result.outcome = "NotSolvedError"

\* the multiframe clock of a path, from its settings
MultiframeClockOf(i) == RDiv(RInt(sample_clock[i]), RInt(S * K))
SquaredDivision(mfc, v) == RDiv(mfc, RInt(v * v))

\* C10: each sysref get_required_clocks() builds is the multiframe clock
\* of its own path over the square of its own divisor, the divisor a
\* solver variable over 1..20.
C10_SysrefSquared ==
    Built =>
        LET i == result.inst
            c == Config(i)
        IN  IF Kind(i) # "rxtx"
            THEN /\ c["lmfc_divisor_sysref"][1] = "var"
                 /\ c["lmfc_divisor_sysref"][4] = 1..20
                 /\ \A v \in 1..20 :
                       Eval(c["sysref"], [lmfc_divisor_sysref |-> v])
                         = SquaredDivision(MultiframeClockOf(i), v)
            ELSE /\ c["adc_lmfc_divisor_sysref"][1] = "var"
                 /\ c["dac_lmfc_divisor_sysref"][1] = "var"
                 /\ c["adc_lmfc_divisor_sysref"][4] = 1..20
                 /\ c["dac_lmfc_divisor_sysref"][4] = 1..20
                 /\ \A v \in 1..20, w \in 1..20 :
                       LET a == [adc_lmfc_divisor_sysref |-> v,
                                 dac_lmfc_divisor_sysref |-> w]
                       IN  /\ Eval(c["sysref_adc"], a)
                                = SquaredDivision(MultiframeClockOf("adc"), v)
                           /\ Eval(c["sysref_dac"], a)
                                = SquaredDivision(MultiframeClockOf("dac"), w)

C10_Witness ==
    /\ Built
    /\ result.inst = "rxtx"
    /\ sample_clock["adc"] # sample_clock["dac"]
    /\ result.value[2] = Config("rxtx")["sysref_adc"]
    /\ result.value[3] = Config("rxtx")["sysref_dac"]

(***************************************************************************)
(* Properties of the solve.                                                *)
(***************************************************************************)
Tried == trial.inst # "none"
\* the value read back for a config entry under the assignment tried
ValueOf(k) == trial.value[k]
InRange(x, lo, hi) == RLe(RInt(lo), x) /\ RLe(x, RInt(hi))
Largest(x, y) == IF x >= y THEN x ELSE y
Smallest(x, y) == IF x <= y THEN x ELSE y

RxScenario == sample_clock["adc"] = 3072 /\ decimation = 1

RxSolutionShape(a, conv, vco) ==
    /\ conv = RInt(decimation * sample_clock["adc"] * a.l)
    /\ InRange(conv, rx_converter_clock_min, rx_converter_clock_max)
    /\ a.l \in {1, 2, 3, 4}
    /\ InRange(vco, vco_min, vco_max)

\* C7 as stated: the receive model built for the scenario has a solution,
\* with converter_clock = decimation x sample_clock x l in [1.45e9, 4e9],
\* l in 1..4 and vco in [6e9, 12e9].
C7_ScenarioSolved ==
    (Built /\ result.inst = "adc" /\ RxScenario /\ ~Tried)
    =>  LET c == Config("adc")
        IN  \E l \in DomainOf(c, "l"), m \in DomainOf(c, "m_vco"),
               n \in DomainOf(c, "n_vco"), r \in DomainOf(c, "r"),
               d \in DomainOf(c, "d") :
               LET a == [l |-> l, m_vco |-> m, n_vco |-> n, r |-> r, d |-> d]
               IN  /\ Accepts(a)
                   /\ RxSolutionShape(a, Eval(c["converter_clk"], a),
                                       Eval(c["vco"], a))

\* C7 amended: every solution of the receive model has converter_clock =
\* decimation x sample_clock x l in [1.45e9, 4e9], l in 1..4 and vco in
\* [6e9, 12e9]; for the scenario every assignment is rejected.
C7_RxSolutions ==
    trial.inst = "adc" =>
        /\ trial.accepted =>
               RxSolutionShape(trial.a, ValueOf("converter_clk"), ValueOf("vco"))
        /\ RxScenario => ~trial.accepted

C7_Witness ==
    /\ trial.inst = "adc"
    /\ trial.accepted
    /\ trial.a.l = 2
    /\ ValueOf("vco") = RInt(vco_max)

\* the relations the latest call registered on the vco entry
VcoRelations ==
    {k \in LatestRelations : equations[k].rel[2] = Config(trial.inst)["vco"]}
VcoAccepts == VcoRelations \cap trial.violated = {}
\* ref_clk x m_vco x n_vco / r
VcoOf(ref, a) == RDiv(RMul(RMul(ref, RInt(a.m_vco)), RInt(a.n_vco)), RInt(a.r))

\* C8: the VCO range is closed: an assignment with vco exactly vco_min or
\* vco_max passes the VCO relations, one with vco one unit outside either
\* bound fails them and is rejected.
C8_VcoClosedInterval ==
    Tried =>
        LET v == VcoOf(ValueOf("ref_clk"), trial.a)
        IN  /\ Cardinality(VcoRelations) = 2
            /\ v \in {RInt(vco_min), RInt(vco_max)} => VcoAccepts
            /\ v \in {RInt(vco_min - 1), RInt(vco_max + 1)} =>
                   ~VcoAccepts /\ ~trial.accepted
            /\ VcoAccepts <=> InRange(v, vco_min, vco_max)

C8_Witness ==
    /\ trial.inst = "dac"
    /\ VcoOf(ValueOf("ref_clk"), trial.a) = RInt(vco_min)
    /\ trial.accepted

\* C9: the reference the PLL relation is solved for gives the converter
\* clock back: ((m_vco x n_vco) / r x ref_clk) / d = converter_clk, and
\* vco = ref_clk x m_vco x n_vco / r, for every assignment.
C9_PllRoundTrip ==
    Tried =>
        LET a == trial.a
            ref == ValueOf("ref_clk")
        IN  /\ RDiv(RMul(RDiv(RInt(a.m_vco * a.n_vco), RInt(a.r)), ref), RInt(a.d))
                 = ValueOf("converter_clk")
            /\ ValueOf("vco") = VcoOf(ref, a)
            /\ ref = RDiv(RMul(ValueOf("converter_clk"), RInt(a.d * a.r)),
                           RInt(a.m_vco * a.n_vco))

C9_Witness ==
    /\ Tried
    /\ trial.a.m_vco = 11
    /\ trial.a.n_vco = 50
    /\ trial.a.r = 3
    /\ trial.a.d = 4
    /\ ValueOf("ref_clk")[2] # 1

\* an expression as the plain formula it stands for
RECURSIVE Plain(_)
Plain(e) ==
    CASE e[1] = "var" -> e
      [] e[1] = "num" -> e
      [] e[1] = "mul" -> Mul(Plain(e[2]), Plain(e[3]))
      [] e[1] = "div" -> Div(Plain(e[2]), Plain(e[3]))
      [] e[1] = "intermediate" -> Plain(e[2])
PlainRelations(eqs) ==
    [k \in 1..Len(eqs) |-> <<eqs[k][1], Plain(eqs[k][2]), Plain(eqs[k][3])>>]

\* a config as the set of its <<key, entry>> pairs
Entries(cfg) == {<<k, cfg[k]>> : k \in DOMAIN cfg}
Entry(es, k) == (CHOOSE p \in es : p[1] = k)[2]
PlainEntries(es) == {<<p[1], Plain(p[2])>> : p \in es}

\* an assignment of the PLL variables together with the sysref divisors
WithDivisors(a, v, w) ==
    [l |-> a.l, m_vco |-> a.m_vco, n_vco |-> a.n_vco, r |-> a.r, d |-> a.d,
     lmfc_divisor_sysref |-> v, adc_lmfc_divisor_sysref |-> v,
     dac_lmfc_divisor_sysref |-> w]
\* the read-back of every expression of a config under an assignment
ReadBackAll(es, a) ==
    {<<p[1], Eval(p[2], a)>> : p \in {q \in es : q[2][1] # "var"}}
Rejecting(eqs, a) == {k \in 1..Len(eqs) : ~Holds(eqs[k], a)}

\* the relations the latest call registered, in the order it made them
Latest ==
    LET n == Cardinality(LatestRelations)
    IN  [k \in 1..n |-> equations[Len(equations) - n + k].rel]
\* the places in the model of the relations of a set of places in Latest
Placed(ks) == {Len(equations) - Cardinality(LatestRelations) + k : k \in ks}

ConfigAfter(j) == IF bound'[j] THEN config'[j] ELSE config'["class"]

\* C12: a get_required_clocks() call leaves in the caller's config only
\* entries made of that call's solver variables and leaves the config of
\* every other device model, the combined model's adc and dac sub-models
\* included, as it was; no other operation changes any config. So after any
\* interleaving of calls each config holds the entries of its own latest
\* call, and that of a model that never called is empty.
C12_InstanceIsolation ==
    [][IF ncalls' = ncalls + 1
       THEN \A j \in Insts :
               IF j = result'.inst
               THEN \A k \in DOMAIN ConfigAfter(j) :
                       Gens(ConfigAfter(j)[k]) \subseteq {ncalls'}
               ELSE ConfigAfter(j) = Config(j)
       ELSE \A j \in Insts : ConfigAfter(j) = Config(j)]_vars

C12_Witness ==
    /\ Built
    /\ result.inst = "rxtx"
    /\ bound["adc"]
    /\ ~bound["dac"]
    /\ Config("dac") = EmptyDict
    /\ Gens(Config("adc")["vco"]) = {1}
    /\ Gens(Config("rxtx")["vco"]) = {2}

====
